---- MODULE Spec2Model ----
(***************************************************************************)
(* Particle Lenia 3D (src/main.js): the particle store, the field          *)
(* computation, the integration step with periodic wrap, and the driver    *)
(* callbacks animate / handleStartStop / handleReset.                      *)
(*                                                                         *)
(* Numbers.  A JS number is modelled as a fixed-point integer counting     *)
(* 1/Scale units, plus the three IEEE non-finite values NaN, PInf, NInf.   *)
(* Addition and subtraction are exact; multiplication and division         *)
(* truncate toward zero, which is sign-symmetric like IEEE rounding        *)
(* (-(a*b) = (-a)*b).  A product too large for the format overflows to an  *)
(* infinity, as in IEEE arithmetic.                                        *)
(***************************************************************************)
EXTENDS Integers, Sequences, FiniteSets, TLC

\* ------------------------------------------------------------------------
\* Number format
\* ------------------------------------------------------------------------
Scale == 10 * 10 * 10

NaN == 2000000003
PInf == 2000000001
NInf == -2000000001
MaxProduct == 2147483647

IsNaN(x) == x = NaN
IsInf(x) == x = PInf \/ x = NInf
IsFin(x) == ~IsNaN(x) /\ ~IsInf(x)

Abs(x) == IF x < 0 THEN -x ELSE x

\* quotient truncated toward zero (b # 0)
TDiv(a, b) ==
  LET q == Abs(a) \div Abs(b)
  IN IF (a < 0) # (b < 0) THEN -q ELSE q

FNeg(x) == IF IsNaN(x) THEN NaN ELSE -x

\* the four operations take the finite case first: NInf < x < PInf holds
\* exactly for the finite values, NaN being above PInf
FAdd(a, b) ==
  IF a > NInf /\ a < PInf /\ b > NInf /\ b < PInf THEN a + b
  ELSE IF IsNaN(a) \/ IsNaN(b) THEN NaN
  ELSE IF IsInf(a) THEN (IF IsInf(b) /\ a # b THEN NaN ELSE a)
  ELSE b

FSub(a, b) ==
  IF a > NInf /\ a < PInf /\ b > NInf /\ b < PInf THEN a - b
  ELSE FAdd(a, FNeg(b))

FMul(a, b) ==
  IF a > NInf /\ a < PInf /\ b > NInf /\ b < PInf
  THEN IF a = 0 \/ b = 0 THEN 0
       ELSE IF Abs(a) > MaxProduct \div Abs(b)
            THEN (IF (a < 0) # (b < 0) THEN NInf ELSE PInf)
       ELSE TDiv(a * b, Scale)
  ELSE IF IsNaN(a) \/ IsNaN(b) THEN NaN
  ELSE IF a = 0 \/ b = 0 THEN NaN
  ELSE IF (a < 0) # (b < 0) THEN NInf ELSE PInf

FDiv(a, b) ==
  IF a > NInf /\ a < PInf /\ b > NInf /\ b < PInf
  THEN IF b = 0
       THEN (IF a = 0 THEN NaN ELSE IF a < 0 THEN NInf ELSE PInf)
       ELSE TDiv(a * Scale, b)
  ELSE IF IsNaN(a) \/ IsNaN(b) THEN NaN
  ELSE IF IsInf(a)
       THEN (IF IsInf(b) THEN NaN
             ELSE IF (a < 0) # (b < 0) THEN NInf ELSE PInf)
  ELSE 0

\* a < b and a > b of JS: false as soon as an operand is NaN
FLt(a, b) == ~IsNaN(a) /\ ~IsNaN(b) /\ a < b
FGt(a, b) == FLt(b, a)

\* Math.max
FMax(a, b) == IF IsNaN(a) \/ IsNaN(b) THEN NaN ELSE IF a > b THEN a ELSE b

\* Newton's iteration from a start x above the root: it decreases to the
\* floor of the square root of n and stops there
RECURSIVE IsqrtIter(_, _)
IsqrtIter(n, x) ==
  LET y == (x + n \div x) \div 2
  IN IF y >= x THEN x ELSE IsqrtIter(n, y)

\* floor of the square root of n, 0 <= n <= MaxProduct
Isqrt(n) == IF n = 0 THEN 0 ELSE IsqrtIter(n, 46341)

\* ------------------------------------------------------------------------
\* THREE.Vector3 as used by main.js
\* ------------------------------------------------------------------------
Axes == 1..3
Zero3 == <<0, 0, 0>>

VAdd(u, v) == [a \in Axes |-> FAdd(u[a], v[a])]
VSub(u, v) == [a \in Axes |-> FSub(u[a], v[a])]
VScale(u, s) == [a \in Axes |-> FMul(u[a], s)]
VNeg(u) == [a \in Axes |-> FNeg(u[a])]
VFin(u) == \A a \in Axes : IsFin(u[a])

\* Vector3.length(): sqrt(x*x + y*y + z*z).  The squares are taken at
\* double resolution, so the root is exact to one unit; components too
\* large for that are squared at a resolution 64 times coarser.
VLength(u) ==
  IF \E a \in Axes : IsNaN(u[a]) THEN NaN
  ELSE IF \E a \in Axes : IsInf(u[a]) THEN PInf
  ELSE IF \E a \in Axes : Abs(u[a]) > 26000
       THEN LET v == [a \in Axes |-> TDiv(u[a], 64)]
            IN IF \E a \in Axes : Abs(v[a]) > 26000 THEN PInf
               ELSE 64 * Isqrt(v[1] * v[1] + v[2] * v[2] + v[3] * v[3])
  ELSE Isqrt(u[1] * u[1] + u[2] * u[2] + u[3] * u[3])

\* ------------------------------------------------------------------------
\* Lenia math helpers
\* ------------------------------------------------------------------------
\* (1 + x/32)^32 by five squarings
fastExp(x) ==
  LET t0 == FAdd(Scale, FDiv(x, 32 * Scale))
      t1 == FMul(t0, t0)
      t2 == FMul(t1, t1)
      t3 == FMul(t2, t2)
      t4 == FMul(t3, t3)
  IN FMul(t4, t4)

\* <<value, derivative>>
peakFunction(r, mu, sigma, w) ==
  LET t == FDiv(FSub(r, mu), sigma)
      y_val == FDiv(w, fastExp(FMul(t, t)))
      deriv == FDiv(FMul(FMul(-2 * Scale, t), y_val), sigma)
  IN <<y_val, deriv>>

\* <<value, derivative>>
repulsionFunction(r, c_rep) ==
  LET t == FMax(FSub(Scale, r), 0)
      val == FMul(FMul(FMul(Scale \div 2, c_rep), t), t)
      deriv == FMul(FNeg(c_rep), t)
  IN <<val, deriv>>


\* ------------------------------------------------------------------------
\* Configuration object
\* ------------------------------------------------------------------------
MaxParticles == 3
MaxFrames == 2
MaxResets == 1

\* the config object of main.js; particleCount (200 in the source) is n
ShippedConfig(n) ==
  [particleCount |-> n,
   worldSize |-> 25 * Scale,
   initialSpread |-> 12 * Scale,
   mu_k |-> 4 * Scale,
   sigma_k |-> Scale,
   w_k |-> (22 * Scale) \div 1000,
   mu_g |-> (6 * Scale) \div 10,
   sigma_g |-> (15 * Scale) \div 100,
   c_rep |-> Scale,
   dt |-> Scale \div 10,
   steps_per_frame |-> 10,
   damping |-> (98 * Scale) \div 100]

\* the same object with a kernel that peaks at distance 1 with weight 0.3,
\* so that a handful of particles reaches the active range of the growth
\* function, and with 2 steps per frame
StrongKernelConfig(n) ==
  [ShippedConfig(n) EXCEPT !.mu_k = Scale, !.w_k = (3 * Scale) \div 10,
                           !.steps_per_frame = 2]

\* the same object with a kernel wide enough to be felt at every distance
\* the draws produce (peak at 2, width 2, weight 0.3), 1 step per frame and
\* a damping of 0.5
WideKernelConfig(n) ==
  [ShippedConfig(n) EXCEPT !.mu_k = 2 * Scale, !.sigma_k = 2 * Scale,
                           !.w_k = (3 * Scale) \div 10,
                           !.steps_per_frame = 1,
                           !.damping = Scale \div 2]

ValidConfigs ==
  {ShippedConfig(n) : n \in 0..MaxParticles}
    \cup {StrongKernelConfig(n) : n \in 0..MaxParticles}
    \cup {WideKernelConfig(n) : n \in 0..MaxParticles}

\* triples of values Math.random() returns in one Particle constructor:
\* the lowest corner of the range on x, the middle, and a point near it
RandomTriples ==
  {<<0, Scale \div 2, Scale \div 2>>,
   <<Scale \div 2, Scale \div 2, Scale \div 2>>,
   <<(54 * Scale) \div 100, (48 * Scale) \div 100, (52 * Scale) \div 100>>}

\* the triple of a fourth or later particle: a point inside the repulsion
\* range of the middle and of the point near it
RandomTriplesFurther ==
  {<<Scale \div 2, (54 * Scale) \div 100, Scale \div 2>>}

\* ------------------------------------------------------------------------
\* State
\* ------------------------------------------------------------------------
VARIABLES
  cfg,        \* config
  particles,  \* the particles array: sequence of Particle records
  scene,      \* [defined |-> BOOLEAN, children |-> sequence of objects]
  isPaused,
  pc,         \* "load", "idle", or the position inside animate:
              \* "fields", "velocity", "position", "render"
  stepsLeft,  \* iterations of the steps_per_frame loop still to run
  stepStart,  \* the particles array as it was when simulationStep was entered
  steps,      \* simulationStep calls completed on the current store
  frames,     \* animate callbacks completed
  resets,     \* handleReset calls completed
  nextId,     \* objects allocated so far (identity of Particle and Mesh)
  pausedAtReset \* isPaused as the last handleReset found it, kept until the
              \* next animate callback has ended

vars == <<cfg, particles, scene, isPaused, pc, stepsLeft, stepStart,
          steps, frames, resets, nextId, pausedAtReset>>

\* ------------------------------------------------------------------------
\* Particle and initParticles
\* ------------------------------------------------------------------------
\* a constructor that forgets to centre the draw: Math.random() * spread
ParticleUncentred(id, rnd, c) ==
  [id |-> id,
   position |-> [a \in Axes |-> FMul(rnd[a], c.initialSpread)],
   velocity |-> Zero3,
   R_val |-> 0,
   U_val |-> 0,
   R_grad |-> Zero3,
   U_grad |-> Zero3]

\* new Particle(), given the three values of Math.random()
Particle(id, rnd, c) ==
  [id |-> id,
   position |-> [a \in Axes |-> FMul(FSub(rnd[a], Scale \div 2), c.initialSpread)],
   velocity |-> Zero3,
   R_val |-> 0,
   U_val |-> 0,
   R_grad |-> Zero3,
   U_grad |-> Zero3]

\* new THREE.Mesh for particle p, position copied, flagged isParticle
Mesh(p) == [isParticle |-> TRUE, owner |-> p.id, position |-> p.position]

Light == [isParticle |-> FALSE, owner |-> 0, position |-> Zero3]

\* initScene: a scene holding the ambient and the directional light
initScene == [defined |-> TRUE, children |-> <<Light, Light>>]

\* the draws of Math.random() for count particles: the first three particles
\* draw from RandomTriples, the later ones from RandomTriplesFurther
DrawSets(count) ==
  IF count <= 3 THEN [1..count -> RandomTriples]
  ELSE {[k \in 1..count |-> IF k <= 3 THEN d[k] ELSE f[k]] :
          d \in [1..3 -> RandomTriples],
          f \in [4..count -> RandomTriplesFurther]}

\* a creation loop that starts at 1 and so makes one particle too few
NewParticlesOneShort(c, d, firstId) ==
  [i \in 1..(c.particleCount - 1) |-> Particle(firstId + i, d[i], c)]

\* the particles array built by the creation loop of initParticles
NewParticles(c, d, firstId) ==
  [i \in 1..c.particleCount |-> Particle(firstId + i, d[i], c)]

\* an initParticles that adds the new meshes and removes none
NewSceneKeepsOld(sc, ps) ==
  IF sc.defined
  THEN [sc EXCEPT !.children =
          sc.children \o [i \in 1..Len(ps) |-> Mesh(ps[i])]]
  ELSE sc

\* the scene after initParticles: particle meshes removed, new ones added
NewScene(sc, ps) ==
  IF sc.defined
  THEN [sc EXCEPT !.children =
          SelectSeq(sc.children, LAMBDA o : ~o.isParticle)
            \o [i \in 1..Len(ps) |-> Mesh(ps[i])]]
  ELSE sc


\* ------------------------------------------------------------------------
\* computeFields
\* ------------------------------------------------------------------------
\* a first loop that sets the two values and leaves the gradients
ResetFieldsKeepGradients(p, c) ==
  [p EXCEPT !.R_val = repulsionFunction(0, c.c_rep)[1],
            !.U_val = peakFunction(0, c.mu_k, c.sigma_k, c.w_k)[1]]

\* a first loop that zeroes everything, the self term left out
ResetFieldsNoSelfTerm(p, c) ==
  [p EXCEPT !.R_val = 0, !.U_val = 0, !.R_grad = Zero3, !.U_grad = Zero3]

\* the first loop: self term, gradients reset
ResetFields(p, c) ==
  [p EXCEPT !.R_val = repulsionFunction(0, c.c_rep)[1],
            !.U_val = peakFunction(0, c.mu_k, c.sigma_k, c.w_k)[1],
            !.R_grad = Zero3,
            !.U_grad = Zero3]

\* diff.x / r with r = diff.length(), no floor added
DivByRNoFloor(d, len) == FDiv(d, len)

\* a quotient that gives a pair at distance zero the direction (1, 1, 1)
DivByRUnitAtZero(d, len) == IF len = 0 THEN Scale ELSE FDiv(d, len)

\* diff.x / r with r = diff.length() + 1e-20.  1e-20 is far below one unit
\* of the format: r is the length, except for a zero length, where the
\* quotient is 0 / 1e-20 = 0.
DivByR(d, len) == IF len = 0 THEN 0 ELSE FDiv(d, len)

\* a pair body that applies the kernel only inside the repulsion range
ApplyPairKernelInRange(ps, i, j, c) ==
  LET p1 == ps[i]
      p2 == ps[j]
      diff == VSub(p1.position, p2.position)
      r == VLength(diff)
      norm == [a \in Axes |-> DivByR(diff[a], r)]
      rep == repulsionFunction(r, c.c_rep)
      ker == peakFunction(r, c.mu_k, c.sigma_k, c.w_k)
      s1 == [p1 EXCEPT !.R_grad = [a \in Axes |-> FAdd(p1.R_grad[a], FMul(norm[a], rep[2]))],
                       !.R_val = FAdd(p1.R_val, rep[1]),
                       !.U_grad = [a \in Axes |-> FAdd(p1.U_grad[a], FMul(norm[a], ker[2]))],
                       !.U_val = FAdd(p1.U_val, ker[1])]
      s2 == [p2 EXCEPT !.R_grad = [a \in Axes |-> FSub(p2.R_grad[a], FMul(norm[a], rep[2]))],
                       !.R_val = FAdd(p2.R_val, rep[1]),
                       !.U_grad = [a \in Axes |-> FSub(p2.U_grad[a], FMul(norm[a], ker[2]))],
                       !.U_val = FAdd(p2.U_val, ker[1])]
  IN IF FLt(r, Scale) THEN [ps EXCEPT ![i] = s1, ![j] = s2] ELSE ps

\* a pair body that adds the kernel gradient to both particles
ApplyPairSameSign(ps, i, j, c) ==
  LET p1 == ps[i]
      p2 == ps[j]
      diff == VSub(p1.position, p2.position)
      r == VLength(diff)
      norm == [a \in Axes |-> DivByR(diff[a], r)]
      rep == repulsionFunction(r, c.c_rep)
      near == FLt(r, Scale)
      q1 == IF near
            THEN [p1 EXCEPT !.R_grad = [a \in Axes |-> FAdd(p1.R_grad[a], FMul(norm[a], rep[2]))],
                            !.R_val = FAdd(p1.R_val, rep[1])]
            ELSE p1
      q2 == IF near
            THEN [p2 EXCEPT !.R_grad = [a \in Axes |-> FSub(p2.R_grad[a], FMul(norm[a], rep[2]))],
                            !.R_val = FAdd(p2.R_val, rep[1])]
            ELSE p2
      ker == peakFunction(r, c.mu_k, c.sigma_k, c.w_k)
      s1 == [q1 EXCEPT !.U_grad = [a \in Axes |-> FAdd(q1.U_grad[a], FMul(norm[a], ker[2]))],
                       !.U_val = FAdd(q1.U_val, ker[1])]
      s2 == [q2 EXCEPT !.U_grad = [a \in Axes |-> FAdd(q2.U_grad[a], FMul(norm[a], ker[2]))],
                       !.U_val = FAdd(q2.U_val, ker[1])]
  IN [ps EXCEPT ![i] = s1, ![j] = s2]

\* the body of the pair loop for particles[i], particles[j]
ApplyPair(ps, i, j, c) ==
  LET p1 == ps[i]
      p2 == ps[j]
      diff == VSub(p1.position, p2.position)
      r == VLength(diff)
      norm == [a \in Axes |-> DivByR(diff[a], r)]
      rep == repulsionFunction(r, c.c_rep)
      near == FLt(r, Scale)
      q1 == IF near
            THEN [p1 EXCEPT !.R_grad = [a \in Axes |-> FAdd(p1.R_grad[a], FMul(norm[a], rep[2]))],
                            !.R_val = FAdd(p1.R_val, rep[1])]
            ELSE p1
      q2 == IF near
            THEN [p2 EXCEPT !.R_grad = [a \in Axes |-> FSub(p2.R_grad[a], FMul(norm[a], rep[2]))],
                            !.R_val = FAdd(p2.R_val, rep[1])]
            ELSE p2
      ker == peakFunction(r, c.mu_k, c.sigma_k, c.w_k)
      s1 == [q1 EXCEPT !.U_grad = [a \in Axes |-> FAdd(q1.U_grad[a], FMul(norm[a], ker[2]))],
                       !.U_val = FAdd(q1.U_val, ker[1])]
      s2 == [q2 EXCEPT !.U_grad = [a \in Axes |-> FSub(q2.U_grad[a], FMul(norm[a], ker[2]))],
                       !.U_val = FAdd(q2.U_val, ker[1])]
  IN [ps EXCEPT ![i] = s1, ![j] = s2]

\* the pair loops, from pair (i, j) on: i < count, j from i + 1 to count
RECURSIVE PairLoop(_, _, _, _)
PairLoop(ps, i, j, c) ==
  IF i > c.particleCount THEN ps
  ELSE IF j > c.particleCount THEN PairLoop(ps, i + 1, i + 2, c)
  ELSE PairLoop(ApplyPair(ps, i, j, c), i, j + 1, c)

computeFields(ps, c) ==
  PairLoop([k \in 1..Len(ps) |-> ResetFields(ps[k], c)], 1, 2, c)

\* ------------------------------------------------------------------------
\* simulationStep
\* ------------------------------------------------------------------------
\* force = dG * grad(U) - grad(R)
Force(p, c) ==
  LET g == peakFunction(p.U_val, c.mu_g, c.sigma_g, Scale)
      dG_U_grad == VScale(p.U_grad, g[2])
  IN VSub(dG_U_grad, p.R_grad)

\* a velocity loop that divides by the damping factor
UpdateVelocityAmplified(p, c) ==
  LET v1 == VAdd(p.velocity, VScale(Force(p, c), c.dt))
  IN [p EXCEPT !.velocity = [a \in Axes |-> FDiv(v1[a], c.damping)]]

\* body of the velocity loop
UpdateVelocity(p, c) ==
  LET v1 == VAdd(p.velocity, VScale(Force(p, c), c.dt))
  IN [p EXCEPT !.velocity = VScale(v1, c.damping)]

\* a wrap that sends the upper boundary itself to the lower one
WrapAxisHalfOpen(x, c) ==
  LET halfWorld == FDiv(c.worldSize, 2 * Scale)
      x1 == IF FLt(x, FNeg(halfWorld)) THEN FAdd(x, c.worldSize) ELSE x
  IN IF ~FLt(x1, halfWorld) THEN FSub(x1, c.worldSize) ELSE x1

\* the two wrap conditionals of one axis
WrapAxis(x, c) ==
  LET halfWorld == FDiv(c.worldSize, 2 * Scale)
      x1 == IF FLt(x, FNeg(halfWorld)) THEN FAdd(x, c.worldSize) ELSE x
  IN IF FGt(x1, halfWorld) THEN FSub(x1, c.worldSize) ELSE x1

\* body of the position loop
UpdatePosition(p, c) ==
  LET moved == VAdd(p.position, VScale(p.velocity, c.dt))
  IN [p EXCEPT !.position = [a \in Axes |-> WrapAxis(moved[a], c)]]


\* ------------------------------------------------------------------------
\* Driver: main, animate, handleStartStop, handleReset
\* ------------------------------------------------------------------------
\* a loop of animate that stops one iteration short
AfterStepOneShort(left) == IF left > 2 THEN "fields" ELSE "render"

\* where animate continues once a simulationStep has returned
AfterStep(left) == IF left > 1 THEN "fields" ELSE "render"

\* module load: config, particles = [], isPaused = false, scene unset
Init ==
  /\ cfg \in ValidConfigs
  /\ particles = <<>>
  /\ scene = [defined |-> FALSE, children |-> <<>>]
  /\ isPaused = FALSE
  /\ pc = "load"
  /\ stepsLeft = 0
  /\ stepStart = <<>>
  /\ steps = 0
  /\ frames = 0
  /\ resets = 0
  /\ nextId = 0
  /\ pausedAtReset = FALSE

\* animate() entered with isPaused false: the steps_per_frame loop starts
EnterFrame(ps) ==
  /\ stepsLeft' = cfg.steps_per_frame
  /\ pc' = IF cfg.steps_per_frame > 0 THEN "fields" ELSE "render"
  /\ stepStart' = ps

\* main(): initScene, initParticles, then the first call of animate
Main ==
  /\ pc = "load"
  /\ \E d \in DrawSets(cfg.particleCount) :
       LET ps == NewParticles(cfg, d, nextId)
       IN /\ particles' = ps
          /\ scene' = NewScene(initScene, ps)
          /\ nextId' = nextId + Len(ps)
          /\ EnterFrame(ps)
  /\ steps' = 0
  /\ UNCHANGED <<cfg, pausedAtReset, isPaused, frames, resets>>

\* requestAnimationFrame callback while running
AnimateRunning ==
  /\ pc = "idle"
  /\ ~isPaused
  /\ frames < MaxFrames
  /\ EnterFrame(particles)
  /\ UNCHANGED <<cfg, pausedAtReset, particles, scene, isPaused, steps, frames,
                 resets, nextId>>

\* a callback that runs the step loop without looking at isPaused
AnimateIgnoringPause ==
  /\ pc = "idle"
  /\ isPaused
  /\ frames < MaxFrames
  /\ EnterFrame(particles)
  /\ UNCHANGED <<cfg, pausedAtReset, particles, scene, isPaused, steps, frames,
                 resets, nextId>>

\* requestAnimationFrame callback while paused: only renders
AnimatePaused ==
  /\ pc = "idle"
  /\ isPaused
  /\ frames < MaxFrames
  /\ pausedAtReset' = FALSE
  /\ frames' = frames + 1
  /\ UNCHANGED <<cfg, particles, scene, isPaused, pc, stepsLeft,
                 stepStart, steps, resets, nextId>>

\* simulationStep, first statement: computeFields()
StepFields ==
  /\ pc = "fields"
  /\ particles' = computeFields(particles, cfg)
  /\ pc' = "velocity"
  /\ UNCHANGED <<cfg, pausedAtReset, scene, isPaused, stepsLeft, stepStart, steps, frames,
                 resets, nextId>>

\* one loop that sets the velocity and moves the particle in the same pass
StepVelocitiesOnePass ==
  /\ pc = "velocity"
  /\ particles' = [k \in 1..Len(particles) |->
                     UpdatePosition(UpdateVelocity(particles[k], cfg), cfg)]
  /\ pc' = "position"
  /\ UNCHANGED <<cfg, pausedAtReset, scene, isPaused, stepsLeft, stepStart, steps, frames,
                 resets, nextId>>

\* simulationStep, the velocity loop over all particles
StepVelocities ==
  /\ pc = "velocity"
  /\ particles' = [k \in 1..Len(particles) |-> UpdateVelocity(particles[k], cfg)]
  /\ pc' = "position"
  /\ UNCHANGED <<cfg, pausedAtReset, scene, isPaused, stepsLeft, stepStart, steps, frames,
                 resets, nextId>>

\* simulationStep, the position loop over all particles; the step then
\* returns to the loop of animate
StepPositions ==
  /\ pc = "position"
  /\ particles' = [k \in 1..Len(particles) |-> UpdatePosition(particles[k], cfg)]
  /\ pc' = AfterStep(stepsLeft)
  /\ stepsLeft' = stepsLeft - 1
  /\ steps' = steps + 1
  /\ stepStart' = particles'
  /\ UNCHANGED <<cfg, pausedAtReset, scene, isPaused, frames, resets, nextId>>

\* the mesh of every particle takes the particle's position
SyncMeshes(sc, ps) ==
  [sc EXCEPT !.children =
     [k \in 1..Len(sc.children) |->
        LET o == sc.children[k]
        IN IF o.isParticle /\ \E i \in 1..Len(ps) : ps[i].id = o.owner
           THEN [o EXCEPT !.position =
                   ps[CHOOSE i \in 1..Len(ps) : ps[i].id = o.owner].position]
           ELSE o]]

\* animate, after the step loop: mesh positions copied, scene rendered
FinishFrame ==
  /\ pc = "render"
  /\ scene' = SyncMeshes(scene, particles)
  /\ frames' = frames + 1
  /\ pc' = "idle"
  /\ pausedAtReset' = FALSE
  /\ UNCHANGED <<cfg, particles, isPaused, stepsLeft, stepStart, steps,
                 resets, nextId>>

handleStartStop ==
  /\ pc = "idle"
  /\ isPaused' = ~isPaused
  /\ UNCHANGED <<cfg, pausedAtReset, particles, scene, pc, stepsLeft, stepStart, steps,
                 frames, resets, nextId>>

\* a reset that restores the value isPaused had when it was called
handleResetKeepsPause ==
  /\ pc = "idle"
  /\ resets < MaxResets
  /\ frames < MaxFrames
  /\ \E d \in DrawSets(cfg.particleCount) :
       LET ps == NewParticles(cfg, d, nextId)
       IN /\ particles' = ps
          /\ scene' = NewScene(scene, ps)
          /\ nextId' = nextId + Len(ps)
          /\ stepStart' = ps
  /\ pausedAtReset' = isPaused
  /\ steps' = 0
  /\ resets' = resets + 1
  /\ UNCHANGED <<cfg, isPaused, pc, stepsLeft, frames>>

\* isPaused = true; initParticles(); isPaused = false
handleReset ==
  /\ pc = "idle"
  /\ resets < MaxResets
  /\ frames < MaxFrames
  /\ \E d \in DrawSets(cfg.particleCount) :
       LET ps == NewParticles(cfg, d, nextId)
       IN /\ particles' = ps
          /\ scene' = NewScene(scene, ps)
          /\ nextId' = nextId + Len(ps)
          /\ stepStart' = ps
  /\ isPaused' = FALSE
  /\ pausedAtReset' = isPaused
  /\ steps' = 0
  /\ resets' = resets + 1
  /\ UNCHANGED <<cfg, pc, stepsLeft, frames>>

Next ==
  \/ Main
  \/ AnimateRunning
  \/ AnimatePaused
  \/ StepFields
  \/ StepVelocities
  \/ StepPositions
  \/ FinishFrame
  \/ handleStartStop
  \/ handleReset

Spec == Init /\ [][Next]_vars

\* ------------------------------------------------------------------------
\* The step on a store in mid-run: the store is any array of particles
\* inside the world, moving slower than the force law's terminal speed
\* c_rep * dt * damping / (1 - damping) = 4.9, with the accumulators the
\* previous step left.
\* ------------------------------------------------------------------------
Vec(x, y, z) == <<(x * Scale) \div 1000, (y * Scale) \div 1000, (z * Scale) \div 1000>>

StoreStatesRight ==
  {[position |-> Vec(12402, 0, 0), velocity |-> Vec(1000, 0, 0)],
   [position |-> Vec(12450, -12450, 0), velocity |-> Vec(1000, -1000, 0)],
   [position |-> Vec(180, -240, 100), velocity |-> Vec(200, -100, 50)]}

StoreStates ==
  StoreStatesRight
    \cup {[position |-> VNeg(q.position), velocity |-> VNeg(q.velocity)] :
            q \in StoreStatesRight}

\* states of the third and later particles
StoreStatesFurther ==
  {[position |-> Vec(12450, -12450, 0), velocity |-> Vec(1000, -1000, 0)],
   [position |-> Vec(-180, 240, -100), velocity |-> Vec(-200, 100, -50)]}

StaleValues == {0, (7 * Scale) \div 1000}

StoreParticle(id, q, stale) ==
  [id |-> id,
   position |-> q.position,
   velocity |-> q.velocity,
   R_val |-> stale,
   U_val |-> stale,
   R_grad |-> <<stale, -stale, stale>>,
   U_grad |-> <<-stale, stale, stale>>]

InitStore ==
  /\ cfg \in {c \in ValidConfigs : c.particleCount >= 1}
  /\ \E qs \in [1..cfg.particleCount -> StoreStates] : \E stale \in StaleValues :
       /\ \A i \in 3..cfg.particleCount : qs[i] \in StoreStatesFurther
       /\ particles = [i \in 1..cfg.particleCount |-> StoreParticle(i, qs[i], stale)]
  /\ scene = NewScene(initScene, particles)
  /\ isPaused = FALSE
  /\ pc = "idle"
  /\ stepsLeft = 0
  /\ stepStart = particles
  /\ steps = 0
  /\ frames = 0
  /\ resets = 0
  /\ nextId = cfg.particleCount
  /\ pausedAtReset = FALSE

NextStore ==
  \/ AnimateRunning
  \/ StepFields
  \/ StepVelocities
  \/ StepPositions
  \/ FinishFrame

SpecStore == InitStore /\ [][NextStore]_vars

\* ------------------------------------------------------------------------
\* The program started on any configuration object, valid or not
\* ------------------------------------------------------------------------
InvalidConfig(c) ==
  \/ c.particleCount < 0
  \/ c.worldSize <= 0
  \/ c.initialSpread < 0
  \/ c.sigma_k <= 0
  \/ c.sigma_g <= 0

AnyConfigs ==
  ValidConfigs
    \cup {[ShippedConfig(2) EXCEPT !.particleCount = -1],
          [ShippedConfig(2) EXCEPT !.worldSize = 0],
          [ShippedConfig(2) EXCEPT !.initialSpread = -Scale],
          [ShippedConfig(2) EXCEPT !.sigma_k = 0],
          [ShippedConfig(2) EXCEPT !.sigma_g = 0],
          [StrongKernelConfig(2) EXCEPT !.sigma_k = 0],
          [StrongKernelConfig(2) EXCEPT !.sigma_g = 0]}

InitAnyConfig ==
  /\ cfg \in AnyConfigs
  /\ particles = <<>>
  /\ scene = [defined |-> FALSE, children |-> <<>>]
  /\ isPaused = FALSE
  /\ pc = "load"
  /\ stepsLeft = 0
  /\ stepStart = <<>>
  /\ steps = 0
  /\ frames = 0
  /\ resets = 0
  /\ nextId = 0
  /\ pausedAtReset = FALSE

SpecAnyConfig == InitAnyConfig /\ [][Next]_vars

TypeOK ==
  /\ isPaused \in BOOLEAN
  /\ pc \in {"load", "idle", "fields", "velocity", "position", "render"}
  /\ frames \in 0..MaxFrames
  /\ resets \in 0..MaxResets
  /\ pausedAtReset \in BOOLEAN


\* ------------------------------------------------------------------------
\* Properties
\* ------------------------------------------------------------------------
\* a call of simulationStep has returned and none is in progress
StepDone == steps >= 1 /\ pc \in {"fields", "render", "idle"}

HalfWorld == FDiv(cfg.worldSize, 2 * Scale)

\* C1: after every call of simulationStep every position component of every
\* particle lies in the half-open interval [-worldSize/2, worldSize/2).
C1_PositionInHalfOpenWorld ==
  StepDone =>
    \A i \in 1..Len(particles) : \A a \in Axes :
      /\ -HalfWorld <= particles[i].position[a]
      /\ particles[i].position[a] < HalfWorld

\* C2: on an invalid configuration the creation of the store fails before
\* anything runs: no store is produced and no step is taken, so the program
\* never leaves its load state.
C2_InvalidConfigRejected ==
  InvalidConfig(cfg) => (pc = "load" /\ particles = <<>> /\ steps = 0)

FieldsOf(p) == <<p.R_val, p.U_val, p.R_grad, p.U_grad>>

\* C3: inside one simulationStep the phases are ordered for the whole
\* population.  At the entry of computeFields the store is the one the
\* previous step left.  When the velocity loop starts, every particle carries
\* the fields computed from the positions the step started with, and no
\* velocity and no position has changed.  When the position loop starts,
\* every velocity is the one derived from that same field snapshot, the
\* fields are still that snapshot and no position has changed.
C3_PhasesOrdered ==
  /\ pc = "fields" => particles = stepStart
  /\ pc \in {"velocity", "position"} =>
       \A f \in {computeFields(stepStart, cfg)} :
         \A k \in 1..Len(particles) :
           /\ FieldsOf(particles[k]) = FieldsOf(f[k])
           /\ particles[k].position = stepStart[k].position
           /\ particles[k].velocity =
                IF pc = "position" THEN UpdateVelocity(f[k], cfg).velocity
                ELSE stepStart[k].velocity

\* the position loop is about to start on a store whose velocities have all
\* changed in this step
C3_Witness ==
  /\ pc = "position"
  /\ Len(particles) >= 2
  /\ \A k \in 1..Len(particles) :
       /\ particles[k].velocity # stepStart[k].velocity
       /\ particles[k].U_grad # Zero3

\* sum of the vectors vs[1..n]
RECURSIVE VSum(_, _)
VSum(vs, n) == IF n = 0 THEN Zero3 ELSE VAdd(VSum(vs, n - 1), vs[n])

\* what the interaction with a particle at position pj contributes to the
\* fields of a particle at position pi: the kernel value and its gradient
\* along the unit vector from pj to pi, and the same for the repulsion when
\* the two are closer than 1
C4_PairTerm(pi, pj, c) ==
  LET diff == VSub(pi, pj)
      r == VLength(diff)
      norm == [a \in Axes |-> DivByR(diff[a], r)]
      rep == repulsionFunction(r, c.c_rep)
      ker == peakFunction(r, c.mu_k, c.sigma_k, c.w_k)
  IN <<IF FLt(r, Scale) THEN rep[1] ELSE 0,
       ker[1],
       IF FLt(r, Scale) THEN VScale(norm, rep[2]) ELSE Zero3,
       VScale(norm, ker[2])>>

\* self term plus the terms of the particles j..Len(ps) other than i
RECURSIVE C4_FieldsFrom(_, _, _, _)
C4_FieldsFrom(ps, i, j, c) ==
  IF j > Len(ps)
  THEN <<repulsionFunction(0, c.c_rep)[1],
         peakFunction(0, c.mu_k, c.sigma_k, c.w_k)[1], Zero3, Zero3>>
  ELSE IF j = i THEN C4_FieldsFrom(ps, i, j + 1, c)
  ELSE LET rest == C4_FieldsFrom(ps, i, j + 1, c)
           term == C4_PairTerm(ps[i].position, ps[j].position, c)
       IN <<FAdd(rest[1], term[1]), FAdd(rest[2], term[2]),
            VAdd(rest[3], term[3]), VAdd(rest[4], term[4])>>

\* C4: after computeFields the four accumulators of every particle are the
\* self term plus the sum, over all other particles, of the pair's
\* contribution, a function of the current positions alone: whatever the
\* accumulators held before the call has no part in the result.
C4_FieldsFromPositionsOnly ==
  pc = "velocity" =>
    \A i \in 1..Len(particles) :
      FieldsOf(particles[i]) = C4_FieldsFrom(stepStart, i, 1, cfg)

\* computeFields has run on a store whose gradients the previous step left
\* non-zero, and has produced other ones
C4_Witness ==
  /\ pc = "velocity"
  /\ steps >= 1
  /\ \E i \in 1..Len(particles) :
       /\ stepStart[i].U_grad # Zero3
       /\ stepStart[i].R_grad # Zero3
       /\ particles[i].U_grad # stepStart[i].U_grad
       /\ particles[i].U_grad # Zero3

C6_SingleParticleStaysPut ==
  [][(cfg.particleCount = 1 /\ pc = "position") =>
       /\ particles'[1].U_val = peakFunction(0, cfg.mu_k, cfg.sigma_k, cfg.w_k)[1]
       /\ particles'[1].R_grad = Zero3
       /\ particles'[1].U_grad = Zero3
       /\ Force(particles[1], cfg) = Zero3
       /\ particles'[1].velocity = Zero3
       /\ particles'[1].position = stepStart[1].position]_vars

\* a lone particle with a non-zero self term has been through a frame
C6_Witness ==
  /\ cfg.particleCount = 1
  /\ pc = "render"
  /\ steps >= 1
  /\ particles[1].U_val > 0
  /\ particles[1].position # Zero3

Mirrored(ps) ==
  /\ Len(ps) = 2
  /\ ps[1].position = VNeg(ps[2].position)
  /\ ps[1].velocity = VNeg(ps[2].velocity)

\* C7: a step that starts with two particles at mirror positions and with
\* opposite velocities ends with the two at mirror positions and with
\* opposite velocities, the wrap included; hence after any number of steps.
C7_MirrorPreserved ==
  [][(pc = "position" /\ Mirrored(stepStart)) => Mirrored(particles')]_vars

\* a mirrored pair after a step in which the wrap fired: the first particle
\* moves to the right and sits at the far left of the world
C7_Witness ==
  /\ StepDone
  /\ Mirrored(particles)
  /\ particles[1].velocity[1] > 0
  /\ particles[1].position[1] < -12 * Scale

\* C8: while isPaused is true an animate callback changes neither the
\* particles nor the step count; isPaused is only ever changed between
\* frames, and no step is in progress while it is true.
C8_PausedMeansFrozen ==
  [][/\ (isPaused /\ isPaused') => (particles' = particles /\ steps' = steps)
     /\ (isPaused' # isPaused) => (pc = "idle" /\ pc' = "idle")
     /\ isPaused' => pc' = "idle"]_vars

\* a paused callback has run after one frame of steps, and nothing moved
C8_Witness ==
  /\ isPaused
  /\ frames = 2
  /\ resets = 0
  /\ steps = cfg.steps_per_frame
  /\ Len(particles) >= 2

FreshStore(ps, c) ==
  /\ Len(ps) = c.particleCount
  /\ \A i \in 1..Len(ps) :
       /\ ps[i].velocity = Zero3
       /\ ps[i].R_val = 0 /\ ps[i].U_val = 0
       /\ ps[i].R_grad = Zero3 /\ ps[i].U_grad = Zero3
       /\ \A a \in Axes :
            /\ -FDiv(c.initialSpread, 2 * Scale) <= ps[i].position[a]
            /\ ps[i].position[a] < FDiv(c.initialSpread, 2 * Scale)

\* C9: initParticles, at start and at every reset, leaves exactly
\* particleCount particles with zero velocity, zero accumulators and every
\* position component in [-initialSpread/2, initialSpread/2), none of them
\* an object of the store it replaces.
C9_FreshStoreAfterInit ==
  [][(pc = "load" \/ resets' # resets) =>
       /\ FreshStore(particles', cfg)
       /\ \A i \in 1..Len(particles') : \A j \in 1..Len(particles) :
            particles'[i].id # particles[j].id]_vars

\* a reset has replaced a store of three particles that had been stepped
C9_Witness ==
  /\ resets = 1
  /\ steps = 0
  /\ frames >= 1
  /\ Len(particles) = 3
  /\ \A i \in 1..3 : particles[i].id > 3

StoreFinite(ps) ==
  \A i \in 1..Len(ps) :
    /\ VFin(ps[i].position) /\ VFin(ps[i].velocity)
    /\ IsFin(ps[i].R_val) /\ IsFin(ps[i].U_val)
    /\ VFin(ps[i].R_grad) /\ VFin(ps[i].U_grad)

\* C10: a step that has returned (no error is ever surfaced) has left every
\* position, velocity and accumulator finite.
C10_NoSilentNonFinite ==
  StepDone => StoreFinite(particles)

\* the particle meshes of scene sc, in the order they were added
ParticleMeshes(sc) == SelectSeq(sc.children, LAMBDA o : o.isParticle)

\* every particle of ps has its mesh in sc, at the particle's position
MeshesAtParticles(sc, ps) ==
  /\ Len(ParticleMeshes(sc)) = Len(ps)
  /\ \A i \in 1..Len(ps) :
       /\ ParticleMeshes(sc)[i].owner = ps[i].id
       /\ ParticleMeshes(sc)[i].position = ps[i].position

\* the position loop moved every particle by its velocity times dt, up to
\* one wrap of worldSize on an axis
MovedByOneDt(before, after, c) ==
  \A k \in 1..Len(before) :
    /\ after[k].velocity = before[k].velocity
    /\ \A a \in Axes :
         \E w \in {0, c.worldSize, -c.worldSize} :
           FSub(after[k].position[a], before[k].position[a])
             = FAdd(FMul(before[k].velocity[a], c.dt), w)

\* C11: an animate callback that finds the simulation running starts the
\* step loop with steps_per_frame iterations to go; every iteration runs
\* computeFields, the velocity loop and the position loop in that order,
\* counts one step and moves the store by one dt; the loop is left only
\* when no iteration remains, after a multiple of steps_per_frame steps on
\* the store; the callback then puts every mesh at its particle's position
\* and ends.  A callback that finds the simulation paused ends without a
\* step and without touching the store.
C11_FrameRunsAllSteps ==
  [][/\ (pc \in {"load", "idle"} /\ pc' \notin {"load", "idle"}) =>
          /\ ~isPaused
          /\ stepsLeft' = cfg.steps_per_frame
          /\ steps' = (IF pc = "load" THEN 0 ELSE steps)
          /\ pc' = "fields"
     /\ pc = "fields" =>
          (pc' = "velocity" /\ stepsLeft' = stepsLeft /\ steps' = steps)
     /\ pc = "velocity" =>
          (pc' = "position" /\ stepsLeft' = stepsLeft /\ steps' = steps)
     /\ pc = "position" =>
          /\ steps' = steps + 1
          /\ stepsLeft' = stepsLeft - 1
          /\ pc' = (IF stepsLeft' = 0 THEN "render" ELSE "fields")
          /\ MovedByOneDt(particles, particles', cfg)
     /\ pc' = "render" =>
          (steps' >= cfg.steps_per_frame /\ steps' % cfg.steps_per_frame = 0)
     /\ pc = "render" =>
          /\ pc' = "idle"
          /\ frames' = frames + 1
          /\ particles' = particles /\ steps' = steps
          /\ MeshesAtParticles(scene', particles)
     /\ (isPaused /\ frames' # frames) =>
          /\ pc = "idle" /\ pc' = "idle"
          /\ particles' = particles /\ steps' = steps /\ scene' = scene]_vars

\* the first callback has ended: steps_per_frame steps were made, particles
\* have moved away from where their meshes were created, and the meshes
\* have followed
C11_Witness ==
  /\ pc = "idle"
  /\ frames = 1
  /\ resets = 0
  /\ steps = cfg.steps_per_frame
  /\ Len(particles) >= 2
  /\ \E i \in 1..Len(particles) : particles[i].velocity # Zero3
  /\ MeshesAtParticles(scene, particles)

\* distance between particles i and j of ps, as the pair loop computes it
Distance(ps, i, j) == VLength(VSub(ps[i].position, ps[j].position))

\* kernel self term plus the kernel value of every pair (i, k), k in j..Len(ps)
RECURSIVE KernelSum(_, _, _, _)
KernelSum(ps, i, j, c) ==
  IF j > Len(ps) THEN peakFunction(0, c.mu_k, c.sigma_k, c.w_k)[1]
  ELSE IF j = i THEN KernelSum(ps, i, j + 1, c)
  ELSE FAdd(KernelSum(ps, i, j + 1, c),
            peakFunction(Distance(ps, i, j), c.mu_k, c.sigma_k, c.w_k)[1])

\* C12: in computeFields the body of a pair at distance r >= 1 leaves R_val
\* and R_grad of both particles as they were and adds the kernel value to
\* both U_val and the kernel gradient, with opposite signs, to both U_grad.
\* After computeFields a particle with no neighbour closer than 1 has R_val
\* at the self term repulsionFunction(0, c_rep) and a zero R_grad, and the
\* U_val of every particle is the self term plus the kernel value of every
\* other particle, far ones included.
C12_FarPairsOnlyKernel ==
  /\ pc = "fields" =>
       \A base \in {[k \in 1..Len(particles) |-> ResetFields(particles[k], cfg)]} :
         \A i \in 1..cfg.particleCount : \A j \in (i + 1)..cfg.particleCount :
           \A r \in {Distance(base, i, j)} :
             ~FLt(r, Scale) =>
               \A after \in {ApplyPair(base, i, j, cfg)},
                  ker \in {peakFunction(r, cfg.mu_k, cfg.sigma_k, cfg.w_k)} :
                 LET diff == VSub(base[i].position, base[j].position)
                     g == [a \in Axes |-> FMul(DivByR(diff[a], r), ker[2])]
                 IN /\ after[i].R_val = base[i].R_val
                    /\ after[j].R_val = base[j].R_val
                    /\ after[i].R_grad = base[i].R_grad
                    /\ after[j].R_grad = base[j].R_grad
                    /\ after[i].U_val = FAdd(base[i].U_val, ker[1])
                    /\ after[j].U_val = FAdd(base[j].U_val, ker[1])
                    /\ after[i].U_grad = VAdd(base[i].U_grad, g)
                    /\ after[j].U_grad = VSub(base[j].U_grad, g)
  /\ pc = "velocity" =>
       \A i \in 1..Len(particles) :
         /\ (\A j \in 1..Len(particles) :
               j # i => ~FLt(Distance(stepStart, i, j), Scale)) =>
              /\ particles[i].R_val = repulsionFunction(0, cfg.c_rep)[1]
              /\ particles[i].R_grad = Zero3
         /\ particles[i].U_val = KernelSum(stepStart, i, 1, cfg)

\* computeFields has run on a store in which the first particle has a
\* neighbour, none closer than 1, whose kernel value is not zero: its R_val
\* is the self term and its U_val and U_grad have the neighbour's part
C12_Witness ==
  /\ pc = "velocity"
  /\ Len(particles) >= 2
  /\ \A j \in 2..Len(particles) : ~FLt(Distance(stepStart, 1, j), Scale)
  /\ peakFunction(Distance(stepStart, 1, 2), cfg.mu_k, cfg.sigma_k, cfg.w_k)[1] > 0
  /\ particles[1].R_val = repulsionFunction(0, cfg.c_rep)[1]
  /\ particles[1].R_val > 0
  /\ particles[1].U_val > peakFunction(0, cfg.mu_k, cfg.sigma_k, cfg.w_k)[1]
  /\ particles[1].U_grad # Zero3

\* C13: in the velocity loop a particle whose force is the zero vector gets
\* its velocity multiplied by damping and nothing added, so no component
\* and not the magnitude of its velocity grows; outside the velocity loop,
\* between two steps included, no velocity changes as long as the store is
\* not replaced.  All configurations have 0 < damping < 1.
C13_DampingMonotone ==
  [][/\ pc = "velocity" =>
          \A k \in 1..Len(particles) :
            Force(particles[k], cfg) = Zero3 =>
              /\ particles'[k].velocity = VScale(particles[k].velocity, cfg.damping)
              /\ \A a \in Axes :
                   Abs(particles'[k].velocity[a]) <= Abs(particles[k].velocity[a])
              /\ VLength(particles'[k].velocity) <= VLength(particles[k].velocity)
     /\ (pc \in {"idle", "fields", "position", "render"} /\ resets' = resets) =>
          \A k \in 1..Len(particles) :
            particles'[k].velocity = particles[k].velocity]_vars

\* a moving particle on which no force acts has just been slowed down
C13_Witness ==
  /\ pc = "position"
  /\ cfg.damping < Scale
  /\ \E k \in 1..Len(particles) :
       /\ Force(particles[k], cfg) = Zero3
       /\ particles[k].velocity # Zero3
       /\ VLength(particles[k].velocity) < VLength(stepStart[k].velocity)

AccumulatorsFinite(p) ==
  IsFin(p.R_val) /\ IsFin(p.U_val) /\ VFin(p.R_grad) /\ VFin(p.U_grad)

\* C14: in computeFields the body of a pair of particles at the same
\* position runs like any other: both gradients of both particles stay as
\* they were (the unit direction is the zero vector), both R_val grow by the
\* repulsion value at distance 0 and both U_val by the kernel value at
\* distance 0, and every accumulator is finite.  After computeFields every
\* accumulator of every particle is finite.
C14_CoincidentPairHandled ==
  /\ pc = "fields" =>
       \A base \in {[k \in 1..Len(particles) |-> ResetFields(particles[k], cfg)]} :
         \A i \in 1..cfg.particleCount : \A j \in (i + 1)..cfg.particleCount :
           base[i].position = base[j].position =>
             \A after \in {ApplyPair(base, i, j, cfg)} :
               \A q \in {i, j} :
                 /\ after[q].R_grad = base[q].R_grad
                 /\ after[q].U_grad = base[q].U_grad
                 /\ after[q].R_val
                      = FAdd(base[q].R_val, repulsionFunction(0, cfg.c_rep)[1])
                 /\ after[q].U_val
                      = FAdd(base[q].U_val,
                             peakFunction(0, cfg.mu_k, cfg.sigma_k, cfg.w_k)[1])
                 /\ AccumulatorsFinite(after[q])
  /\ pc = "velocity" =>
       \A i \in 1..Len(particles) : AccumulatorsFinite(particles[i])

\* computeFields has run on a store with two particles at the same position
\* and a third one near them: the two carry the pair's repulsion and kernel
\* values on top of the self terms
C14_Witness ==
  /\ pc = "velocity"
  /\ Len(particles) = 3
  /\ \E i, j \in 1..3 :
       /\ i # j
       /\ stepStart[i].position = stepStart[j].position
       /\ particles[i].R_val >= 2 * repulsionFunction(0, cfg.c_rep)[1]
       /\ particles[i].R_val > 0
       /\ particles[i].U_val >= 2 * peakFunction(0, cfg.mu_k, cfg.sigma_k, cfg.w_k)[1]
       /\ particles[i].U_val > 0
       /\ particles[i].R_grad # Zero3
       /\ AccumulatorsFinite(particles[i])

\* C15: handleReset returns with isPaused false, whether it was called
\* while running or while paused.  A handler runs to completion before any
\* callback, so the value true it sets on entry is gone when the next
\* animate callback looks at isPaused: the callback that follows a reset
\* issued while paused, with no Start/Pause click in between, runs the step
\* loop on the new store.
C15_ResetResumes ==
  [][/\ resets' # resets =>
          /\ ~isPaused'
          /\ pc' = "idle"
          /\ pausedAtReset' = isPaused
     /\ (/\ pausedAtReset /\ ~isPaused /\ pc = "idle"
         /\ (pc' # "idle" \/ frames' # frames)) =>
          /\ pc' = "fields"
          /\ stepsLeft' = cfg.steps_per_frame
          /\ particles' = particles
          /\ stepStart' = particles
          /\ steps = 0]_vars

\* the callback that follows a reset issued while paused is running its
\* first step on the new store
C15_Witness ==
  /\ resets = 1
  /\ frames = 1
  /\ pausedAtReset
  /\ ~isPaused
  /\ pc = "velocity"
  /\ steps = 0
  /\ Len(particles) >= 2
  /\ \A i \in 1..Len(particles) : particles[i].id > Len(particles)

\* C16: once main has called initParticles, and through every animate,
\* handleStartStop and handleReset callback after it, the particles array
\* has exactly config.particleCount elements; so has the snapshot
\* computeFields starts from, and the indices 0..particleCount-1 of its pair
\* loops are exactly the indices of the array.
C16_LengthIsParticleCount ==
  pc # "load" =>
    /\ Len(particles) = cfg.particleCount
    /\ Len(stepStart) = cfg.particleCount
    /\ DOMAIN particles = 1..cfg.particleCount

\* computeFields is about to run on a store of three particles created by a
\* reset that followed a Start/Pause click
C16_Witness ==
  /\ pc = "fields"
  /\ resets = 1
  /\ pausedAtReset
  /\ stepsLeft = cfg.steps_per_frame
  /\ cfg.particleCount = 3
  /\ Len(particles) = 3

\* C17: once main has called initParticles, and after every reset, the
\* scene children flagged isParticle are as many as the particles of the
\* current store, the i-th of them is the mesh of the i-th particle, and so
\* none is the mesh of a particle of an earlier store; the two lights are
\* still in the scene.
C17_OneMeshPerParticle ==
  pc # "load" =>
    /\ scene.defined
    /\ Len(ParticleMeshes(scene)) = Len(particles)
    /\ \A i \in 1..Len(particles) :
         ParticleMeshes(scene)[i].owner = particles[i].id
    /\ Len(scene.children) = Len(particles) + 2

\* a reset has replaced a store of three particles whose meshes had been
\* moved by a frame: the scene holds the three new meshes only
C17_Witness ==
  /\ resets = 1
  /\ frames >= 1
  /\ pc = "idle"
  /\ Len(particles) = 3
  /\ Len(ParticleMeshes(scene)) = 3
  /\ \A i \in 1..3 : ParticleMeshes(scene)[i].owner > 3

\* particles i and j of ps have the same position and the same velocity
Together(ps, i, j) ==
  ps[i].position = ps[j].position /\ ps[i].velocity = ps[j].velocity

====
